---- MODULE Spec2Model ----
(***************************************************************************)
(* Model of gopython310: one PureGoPython handle (types.go) driven by      *)
(* several goroutines.  The handle owns a sync.Mutex (mu) and a table of   *)
(* native entry points of libpython; the interpreter itself is the native  *)
(* library's process-wide state.  Every public method is a sequence of     *)
(* steps of the calling goroutine; a step is one native call, one lock     *)
(* operation or one return.                                                *)
(***************************************************************************)
EXTENDS Integers, Sequences, FiniteSets, TLC

\* Number of goroutines that use the handle.
NumThreads == 2
\* Number of calls each goroutine issues in the counter scenario.
MaxCalls == 2
\* The increment passed to the counter function (examples/concurrent/main.go).
Increment == 5
\* Longest Go string, and longest slice or largest map, given to goToPython.
MaxStrLen == 1
MaxLen == 2
\* Largest number given to goToPython.
MaxInt == 1
\* Number of constructor calls that return a handle.
MaxHandles == 2
\* Width in bits of the native long and of int64 in the model.
LongBits == 4

Threads == 1..NumThreads
Free == 0

VARIABLES
  interp,      \* the native interpreter: "uninit", "init" or "fin"
  stopped,     \* history: Py_FinalizeEx has finalized the interpreter at least once
  mu,          \* PureGoPython.mu: Free or the goroutine holding it
  excPending,  \* the interpreter's pending-exception indicator (PyErr_Occurred)
  counter,     \* a module-level counter of the Python program
  pc,          \* where each goroutine is in its current public operation
  op,          \* the public operation each goroutine is executing
  arg,         \* the argument of that operation
  ret,         \* the value the operation returns (set when it returns)
  natives,     \* the native entry points the operation has completed, with results
  tmp,         \* the counter value the Python function read (its local variable)
  issued,      \* number of counter calls each goroutine has issued
  want,        \* the TResponse type parameter of a CallPyFunction call
  local,       \* what the call in progress owns and has done (see NoLocal)
  value,       \* the Go value given to goToPython
  object,      \* the outcome of goToPython, or the object given to pythonToGo
  converted,   \* the outcome of pythonToGo
  lib,         \* the symbols the loaded libpython exports
  handle,      \* the outcome of the latest NewPureGoPython
  handles,     \* the number of handles constructed for the library
  exc,         \* the exception pending when getPythonError is called
  fetched      \* the outcome of the latest getPythonError

\* The variables of the conversion functions, of the constructor and of
\* getPythonError.
pure == <<value, object, converted, lib, handle, handles, exc, fetched>>

vars == <<interp, stopped, mu, excPending, counter, pc, op, arg, ret, natives,
          tmp, issued, want, local, pure>>

global == <<interp, stopped, mu, excPending, counter>>

\* A call that has not started: the references callFunctionUnsafe holds and
\* the ones it has released, in order; the references buildArgumentTuple
\* created and released; sys.path as the call's site script left it; the
\* goroutine that held the mutex when a Finalize was called, while the call
\* it was in still holds it; the interpreter state the native start found;
\* the type of the object the Python function returned.
NoLocal ==
  [held |-> {}, dropped |-> <<>>, made |-> 0, freed |-> 0, path |-> <<>>,
   seen |-> Free, was |-> "-", result |-> "-"]

----------------------------------------------------------------------------
(* Inputs *)

\* Source texts given to PyRun_SimpleString: one that runs, one that raises.
Codes == {"pass", "raise"}
\* The empty source text.
EmptyCode == "empty"
\* RunFile arguments: a path that does not exist, a file that cannot be read,
\* or a file holding a source text.
Files == {"nofile", "unreadable"} \cup Codes
\* VirtualEnvConfig values, by what configureVirtualEnvironment finds.
VenvConfigs == {"empty", "missing", "nolib", "valid"}
\* Further configurations with a lib directory: SystemSite set; no
\* python*/site-packages under lib; a directory under lib whose name has
\* fewer than six characters.
VenvLayouts == {"valid+system", "nosite", "short"}
\* CallFunction targets in the general model: an existing function of __main__,
\* a module that cannot be imported, a missing attribute, an unsupported argument.
Targets == {"f", "nomod", "nofn", "badarg"}
\* A function of __main__ that takes no parameters (get_number of
\* examples/runstring_with_return/main.go).
NoParams == "f0"
\* The type arguments TResponse that CallPyFunction is instantiated with.
ResponseTypes == {"int64", "int", "string"}
\* What the Python function f may do: return an int, return None, raise,
\* or return an object pythonToGo does not support.
FResults == {"int", "None", "raise", "tuple"}
\* A function of __main__ that returns an instance of a class the program
\* has named NoneType.
ReturnsInstance == "fcls"

\* The methods that touch the interpreter themselves, and the methods that
\* wrap one of them.
CoreOps == {"Initialize", "InitializeWithVenv", "Finalize", "IsInitialized",
            "RunString", "CallFunction"}
WrapperOps == {"RunFile", "CallPyFunction", "FinalizeThreadSafe",
               "IsInitializedThreadSafe"}
PublicOps == CoreOps \cup WrapperOps

Entry(o) ==
  CASE o = "Initialize" -> "init_start"
    [] o = "InitializeWithVenv" -> "venv_cfg"
    [] o = "Finalize" -> "fin_check"
    [] o = "IsInitialized" -> "query"
    [] o = "RunString" -> "rs_check"
    [] o = "RunFile" -> "rf_check"
    [] o = "CallFunction" -> "cf_check"
    [] o = "CallPyFunction" -> "cpf_check"
    [] o = "FinalizeThreadSafe" -> "ts_lock"
    [] o = "IsInitializedThreadSafe" -> "ts_lock"

----------------------------------------------------------------------------
(* Helpers *)

\* Py_IsInitialized: 1 while the interpreter is initialized, else 0.
pyIsInitialized == IF interp = "init" THEN 1 ELSE 0

\* IsInitialized: py.pyIsInitialized() != 0
IsInitialized == pyIsInitialized # 0

\* A Lock that does not wait for the holder.
Lock_NoWait(t) == mu' = t

\* mu.Lock(): blocks until the mutex is free (sync.Mutex is not reentrant).
Lock(t) == mu = Free /\ mu' = t

\* the deferred mu.Unlock()
Unlock(t) == mu' = Free

\* The call of u has released the mutex: no Finalize waits for it any more.
Forget(u) ==
  local' = [x \in Threads |->
              IF local[x].seen = u THEN [local[x] EXCEPT !.seen = Free]
              ELSE local[x]]

\* Record a completed native call and its result.
Native(t, name, result) ==
  natives' = [natives EXCEPT ![t] = Append(@, <<name, result>>)]

Invoked(t, name) == \E i \in 1..Len(natives[t]) : natives[t][i][1] = name

Goto(t, label) == pc' = [pc EXCEPT ![t] = label]

\* Where a method continues when the method it called returns.
Continuation(o) ==
  CASE o \in {"FinalizeThreadSafe", "IsInitializedThreadSafe"} -> "ts_unlock"
    [] o = "CallPyFunction" -> "cpf_cast"
    [] OTHER -> "done"

\* Return v from the method the goroutine is in to its caller.
Return(t, v) ==
  /\ ret' = [ret EXCEPT ![t] = v]
  /\ Goto(t, Continuation(op[t]))

\* Return v from the public operation itself.
ReturnTop(t, v) ==
  /\ ret' = [ret EXCEPT ![t] = v]
  /\ Goto(t, "done")

----------------------------------------------------------------------------
(* Conversion between Go values and Python objects *)

\* A Go value: its dynamic type k, and by type a number n (a bool is 0 or 1),
\* the bytes s of a string, the items of a slice, the entries m of a map.
GoValue(k, n, s, items, m) ==
  [k |-> k, n |-> n, s |-> s, items |-> items, m |-> m]
GoNil == GoValue("nil", 0, <<>>, <<>>, {})
GoString(s) == GoValue("string", 0, s, <<>>, {})
GoNumber(k, n) == GoValue(k, n, <<>>, <<>>, {})
GoSlice(items) == GoValue("slice", 0, <<>>, items, {})
GoMap(m) == GoValue("map", 0, <<>>, <<>>, m)
\* A value of a type goToPython has no case for.
GoChan == GoValue("chan", 0, <<>>, <<>>, {})

\* The Go types goToPython has a case for, and the integer types of fixed
\* width it has none for.
HostKinds ==
  {"nil", "string", "int", "int64", "float64", "bool", "slice", "map"}
FixedWidth ==
  {"int8", "int16", "int32", "uint", "uint8", "uint16", "uint32", "uint64"}

\* A Python object: its type t, and by type its number, its text, its items
\* or its entries.  An entry of a dict has the type kt of its key, the bytes
\* of a str key, and its value.  NULL is the null pointer.
PyObj(t, n, s, items, m) ==
  [t |-> t, n |-> n, s |-> s, items |-> items, m |-> m]
NULL == PyObj("NULL", 0, <<>>, <<>>, {})
PyNone == PyObj("NoneType", 0, <<>>, <<>>, {})
PyTuple == PyObj("tuple", 0, <<>>, <<>>, {})
\* A class a Python program defines under the name NoneType, and an
\* instance of it.
UserNoneType == "class NoneType"
PyInstance == PyObj(UserNoneType, 0, <<>>, <<>>, {})

\* The Go values the conversions are applied to.
Bytes == {0, 97}
Strings == UNION {[1..n -> Bytes] : n \in 0..MaxStrLen}
Numbers == 0..MaxInt
Keys == {<<97>>, <<98>>}
Atoms ==
  {GoNil, GoChan}
  \cup {GoString(s) : s \in Strings}
  \cup {GoNumber(k, n) : k \in {"int", "int64", "float64"}, n \in Numbers}
  \cup {GoNumber(k, n) : k \in FixedWidth, n \in Numbers}
  \cup {GoNumber("bool", b) : b \in {0, 1}}
ItemAtoms == {GoNil, GoChan, GoString(<<97>>), GoNumber("int", MaxInt)}
SlicesOf(S, len) == UNION {{GoSlice(q) : q \in [1..n -> S]} : n \in 0..len}
MapsOf(S, len) ==
  UNION {{GoMap({[key |-> k, val |-> f[k]] : k \in K}) : f \in [K -> S]} :
         K \in {J \in SUBSET Keys : Cardinality(J) <= len}}
Elems == ItemAtoms \cup SlicesOf(ItemAtoms, 1) \cup MapsOf(ItemAtoms, 1)
\* Maps with a key that is not UTF-8.
BadKey == <<255>>
BadKeyMaps ==
  {GoMap({[key |-> BadKey, val |-> x]}) : x \in ItemAtoms}
  \cup {GoMap({[key |-> <<97>>, val |-> GoNumber("int", MaxInt)],
               [key |-> BadKey, val |-> GoSlice(<<GoString(<<97>>)>>)]})}
Values ==
  Atoms \cup SlicesOf(Elems, MaxLen) \cup MapsOf(Elems, MaxLen)
        \cup BadKeyMaps

\* The range of the native long.
LongMin == -(2 ^ (LongBits - 1))
LongMax == 2 ^ (LongBits - 1) - 1

\* PyLong_AsLong: the number, or -1 (and OverflowError set) when it is out
\* of the range of a long.
pyLongAsLong(n) == IF n \in LongMin..LongMax THEN n ELSE -1

\* Objects a Python function hands back.
Returned ==
  {PyNone, PyTuple, PyInstance,
   PyObj("bool", 0, <<>>, <<>>, {}), PyObj("bool", 1, <<>>, <<>>, {}),
   PyObj("int", 1, <<>>, <<>>, {}), PyObj("str", 0, <<97>>, <<>>, {}),
   PyObj("int", LongMax, <<>>, <<>>, {}), PyObj("int", LongMin, <<>>, <<>>, {}),
   PyObj("int", LongMax + 1, <<>>, <<>>, {}),
   PyObj("int", LongMin - 1, <<>>, <<>>, {}),
   PyObj("list", 0, <<>>,
         <<PyObj("bool", 1, <<>>, <<>>, {}), PyObj("int", 1, <<>>, <<>>, {})>>,
         {}),
   PyObj("list", 0, <<>>, <<PyObj("int", 1, <<>>, <<>>, {}), PyTuple>>, {}),
   PyObj("dict", 0, <<>>, <<>>,
         {[key |-> <<97>>, kt |-> "str",
           val |-> PyObj("bool", 0, <<>>, <<>>, {})]}),
   PyObj("dict", 0, <<>>, <<>>,
         {[key |-> <<97>>, kt |-> "str", val |-> PyTuple]}),
   PyObj("dict", 0, <<>>, <<>>,
         {[key |-> <<97>>, kt |-> "str",
           val |-> PyObj("int", 1, <<>>, <<>>, {})],
          [key |-> <<>>, kt |-> "int",
           val |-> PyObj("int", 1, <<>>, <<>>, {})]}),
   PyObj("dict", 0, <<>>, <<>>,
         {[key |-> <<>>, kt |-> "int", val |-> PyTuple]}),
   PyObj("dict", 0, <<>>, <<>>,
         {[key |-> <<97, 0, 98>>, kt |-> "str",
           val |-> PyObj("int", 1, <<>>, <<>>, {})]})}

\* stringToCString followed by a native read up to the terminator, and
\* cStringToGoString: the bytes before the first zero byte.
RECURSIVE CString(_)
CString(s) ==
  IF s = <<>> \/ Head(s) = 0 THEN <<>> ELSE <<Head(s)>> \o CString(Tail(s))

\* The references an object holds, itself included.
RECURSIVE Held(_), HeldSeq(_), HeldSet(_)
Held(o) == IF o.t = "NULL" THEN 0 ELSE 1 + HeldSeq(o.items) + HeldSet(o.m)
HeldSeq(q) == IF q = <<>> THEN 0 ELSE Held(Head(q)) + HeldSeq(Tail(q))
HeldSet(m) ==
  IF m = {} THEN 0
  ELSE LET e == CHOOSE x \in m : TRUE IN Held(e.val) + HeldSet(m \ {e})

\* The native calls goToPython makes on the references it owns: references
\* handed to PyList_SetItem (stolen) and releases of such a reference
\* afterwards (item); references handed to PyDict_SetItemString (passed) and
\* releases of such a reference afterwards (value); releases of a list or a
\* dict given up on an error (container); Py_DecRef calls on a null
\* reference (null).
NoLog ==
  [stolen |-> 0, item |-> 0, passed |-> 0, value |-> 0, container |-> 0,
   null |-> 0]
Merge(a, b) == [f \in DOMAIN a |-> a[f] + b[f]]
Did(what) == [NoLog EXCEPT ![what] = 1]

\* A safeDecRef that calls Py_DecRef on whatever it is given.
safeDecRef_Unchecked(role, o) == Did(IF o = NULL THEN "null" ELSE role)

\* safeDecRef: Py_DecRef unless the reference is null.
safeDecRef(role, o) == IF o = NULL THEN NoLog ELSE Did(role)

\* What goToPython gives: the object, the error ("nil" for none), the Go type
\* the error names, the references created and released on the way, and
\* the native calls made on them.
Outcome(o, err, named, made, freed) ==
  [from |-> "go", obj |-> o, err |-> err, named |-> named, made |-> made,
   freed |-> freed, log |-> NoLog]

\* The outcome with the native calls of `log` added.
With(out, log) == [out EXCEPT !.log = Merge(@, log)]

\* OK iff PyUnicode_FromString can decode the bytes as UTF-8.
ValidUTF8(s) == \A i \in 1..Len(s) : s[i] < 128

\* PyDict_SetItemString with a null value is outside the native contract: the
\* process dies in the native call, or the call is refused.
NullValueOutcomes == {"crash", "ErrSetItem"}

RECURSIVE goToPython(_), sliceToPythonList(_, _, _, _, _),
          mapToPythonDict(_, _, _, _)
goToPython(v) ==
  CASE v.k = "nil" -> {Outcome(NULL, "nil", "", 0, 0)}
    [] v.k = "string" ->
         {Outcome(PyObj("str", 0, CString(v.s), <<>>, {}), "nil", "", 1, 0)}
    [] v.k \in {"int", "int64"} ->
         {Outcome(PyObj("int", v.n, <<>>, <<>>, {}), "nil", "", 1, 0)}
    [] v.k = "float64" ->
         {Outcome(PyObj("float", v.n, <<>>, <<>>, {}), "nil", "", 1, 0)}
    [] v.k = "bool" ->
         {Outcome(PyObj("bool", IF v.n # 0 THEN 1 ELSE 0, <<>>, <<>>, {}),
                  "nil", "", 1, 0)}
    [] v.k = "slice" -> sliceToPythonList(v.items, 1, <<>>, 1, 0)
    [] v.k = "map" -> mapToPythonDict(v.m, {}, 1, 0)
    [] OTHER -> {Outcome(NULL, "ErrUnsupported", v.k, 0, 0)}

\* The loop of sliceToPythonList from item i on; `built` are the items the
\* list holds already.  An item's error releases the list; a converted item
\* is handed to PyList_SetItem, which on a list of this length succeeds.
sliceToPythonList(items, i, built, made, freed) ==
  IF i > Len(items)
  THEN {Outcome(PyObj("list", 0, <<>>, built, {}), "nil", "", made, freed)}
  ELSE UNION {
         IF r.err = "crash"
         THEN {With(Outcome(NULL, "crash", "", made + r.made, freed + r.freed),
                    r.log)}
         ELSE IF r.err # "nil"
         THEN {With(Outcome(NULL, r.err, r.named, made + r.made,
                            freed + r.freed + 1 + HeldSeq(built)),
                    Merge(r.log, safeDecRef("container", PyNone)))}
         ELSE {With(x, Merge(r.log, IF r.obj = NULL THEN NoLog
                                    ELSE Did("stolen")))
               : x \in sliceToPythonList(items, i + 1, Append(built, r.obj),
                                         made + r.made, freed + r.freed)}
         : r \in goToPython(items[i])}

\* The loop of mapToPythonDict over the entries not yet visited, in any
\* order; `built` are the entries the dict holds already.  A value's
\* error releases the dict; PyDict_SetItemString fails for a key that is
\* not UTF-8, and then the dict and the value are released; after an
\* insertion the value is released.
mapToPythonDict(rest, built, made, freed) ==
  IF rest = {}
  THEN {Outcome(PyObj("dict", 0, <<>>, <<>>, built), "nil", "", made, freed)}
  ELSE UNION {UNION {
         IF r.err = "crash"
         THEN {With(Outcome(NULL, "crash", "", made + r.made, freed + r.freed),
                    r.log)}
         ELSE IF r.err # "nil"
         THEN {With(Outcome(NULL, r.err, r.named, made + r.made,
                            freed + r.freed + 1 + HeldSet(built)),
                    Merge(r.log, safeDecRef("container", PyNone)))}
         ELSE IF r.obj = NULL
         THEN {IF x = "crash"
               THEN Outcome(NULL, "crash", "", made, freed)
               ELSE With(Outcome(NULL, x, "", made, freed + 1 + HeldSet(built)),
                         Merge(safeDecRef("container", PyNone),
                               safeDecRef("value", r.obj)))
               : x \in NullValueOutcomes}
         ELSE IF ~ValidUTF8(CString(e.key))
         THEN {With(Outcome(NULL, "ErrSetItem", "", made + r.made,
                            freed + r.freed + Held(r.obj) + 1 + HeldSet(built)),
                    Merge(Merge(r.log, Did("passed")),
                          Merge(safeDecRef("container", PyNone),
                                safeDecRef("value", r.obj))))}
         ELSE LET old == {d \in built : d.key = CString(e.key)}
              IN {With(x, Merge(Merge(r.log, Did("passed")),
                                safeDecRef("value", r.obj)))
                  : x \in mapToPythonDict(
                            rest \ {e},
                            (built \ old)
                              \cup {[key |-> CString(e.key), kt |-> "str",
                                     val |-> r.obj]},
                            made + r.made, freed + r.freed + HeldSet(old))}
         : r \in goToPython(e.val)} : e \in rest}

\* A loop of buildArgumentTuple that does not release the tuple on an error.
RECURSIVE buildArgumentTuple_loop(_, _, _, _, _)
buildArgumentTuple_loop_Leaky(args, i, built, made, freed) ==
  IF i > Len(args)
  THEN {Outcome(PyObj("tuple", 0, <<>>, built, {}), "nil", "", made, freed)}
  ELSE UNION {
         IF r.err # "nil"
         THEN {Outcome(NULL, r.err, r.named, made + r.made, freed + r.freed)}
         ELSE buildArgumentTuple_loop(args, i + 1, Append(built, r.obj),
                                      made + r.made, freed + r.freed)
         : r \in goToPython(args[i])}

\* The loop of buildArgumentTuple from argument i on; `built` are the items
\* the tuple has stolen already.  An argument's error releases the tuple.
buildArgumentTuple_loop(args, i, built, made, freed) ==
  IF i > Len(args)
  THEN {Outcome(PyObj("tuple", 0, <<>>, built, {}), "nil", "", made, freed)}
  ELSE UNION {
         IF r.err = "crash"
         THEN {Outcome(NULL, "crash", "", made + r.made, freed + r.freed)}
         ELSE IF r.err # "nil"
         THEN {Outcome(NULL, r.err, r.named, made + r.made,
                       freed + r.freed + 1 + HeldSeq(built))}
         ELSE buildArgumentTuple_loop(args, i + 1, Append(built, r.obj),
                                      made + r.made, freed + r.freed)
         : r \in goToPython(args[i])}

\* buildArgumentTuple: the tuple is created, then filled.
buildArgumentTuple(args) == buildArgumentTuple_loop(args, 1, <<>>, 1, 0)

\* getTypeName and the type checks built on it.
getTypeName(o) ==
  IF o.t \in {"NULL", UserNoneType} THEN "NoneType" ELSE o.t
isNone(o) == o.t = "NULL" \/ getTypeName(o) = "NoneType"
isString(o) == getTypeName(o) = "str"
isBool_Never(o) == FALSE
isBool(o) == getTypeName(o) = "bool"
isInt(o) == getTypeName(o) = "int"
isFloat(o) == getTypeName(o) = "float"
isList(o) == getTypeName(o) = "list"
isDict(o) == getTypeName(o) = "dict"

\* What pythonToGo gives: the Go value, the error ("nil" for none) and the
\* Python type the error names.
Converted(v, err, named) == [val |-> v, err |-> err, named |-> named]

RECURSIVE pythonToGo_object(_), pythonListToSlice(_, _, _), pythonDictToMap(_)
pythonToGo_object(o) ==
  IF isNone(o) THEN Converted(GoNil, "nil", "")
  ELSE IF isString(o) THEN Converted(GoString(CString(o.s)), "nil", "")
  ELSE IF isBool(o)
  THEN Converted(GoNumber("bool", IF pyLongAsLong(o.n) # 0 THEN 1 ELSE 0),
                 "nil", "")
  ELSE IF isInt(o) THEN Converted(GoNumber("int64", pyLongAsLong(o.n)), "nil", "")
  ELSE IF isFloat(o) THEN Converted(GoNumber("float64", o.n), "nil", "")
  ELSE IF isList(o) THEN pythonListToSlice(o.items, 1, <<>>)
  ELSE IF isDict(o) THEN pythonDictToMap(o.m)
  ELSE Converted(GoNil, "ErrUnsupportedPy", getTypeName(o))

pythonListToSlice(items, i, built) ==
  IF i > Len(items) THEN Converted(GoSlice(built), "nil", "")
  ELSE LET r == pythonToGo_object(items[i])
       IN IF r.err # "nil" THEN Converted(GoNil, r.err, r.named)
          ELSE pythonListToSlice(items, i + 1, Append(built, r.val))

\* PyDict_GetItemString: the value under the str key made of the bytes of
\* the C string, or null when the dict has no such key.
pyDictGetItemString(m, cKey) ==
  IF \E d \in m : d.kt = "str" /\ d.key = cKey
  THEN (CHOOSE d \in m : d.kt = "str" /\ d.key = cKey).val
  ELSE NULL

\* Entries whose key is not a str are skipped; the value of a str key is
\* looked up under the key's bytes before its first zero byte, and the
\* entry is skipped when the lookup gives null.
pythonDictToMap(m) ==
  LET cKeys == {CString(e.key) : e \in {d \in m : d.kt = "str"}}
      present == {k \in cKeys : pyDictGetItemString(m, k) # NULL}
      bad == {k \in present :
                pythonToGo_object(pyDictGetItemString(m, k)).err # "nil"}
  IN IF bad # {}
     THEN LET r == pythonToGo_object(
                     pyDictGetItemString(m, CHOOSE k \in bad : TRUE))
          IN Converted(GoNil, r.err, r.named)
     ELSE Converted(
            GoMap({[key |-> k,
                    val |-> pythonToGo_object(pyDictGetItemString(m, k)).val]
                   : k \in present}),
            "nil", "")

----------------------------------------------------------------------------
(* Native entry points *)

\* Py_Initialize: no status; a no-op on an initialized interpreter.  The
\* started flag is whether the native side came up.
Py_Initialize(started) ==
  interp' = IF interp = "init" THEN "init"
            ELSE IF started THEN "init" ELSE interp

\* Py_FinalizeEx: returns 0 at once when the interpreter is not initialized;
\* otherwise finalizes it and returns 0, or -1 when flushing failed.
StopStatuses == IF interp = "init" THEN {0, -1} ELSE {0}
Py_FinalizeEx ==
  IF interp = "init"
  THEN /\ interp' = "fin"
       /\ stopped' = TRUE
       /\ excPending' = FALSE
       /\ counter' = 0
  ELSE UNCHANGED <<interp, stopped, excPending, counter>>

\* PyRun_SimpleString: 0 on success, -1 when the text raised (the exception is
\* printed and cleared by the native side).  The cleanup script may fail too.
\* On an interpreter that is not initialized the result is not defined.
RunResults(code) ==
  IF interp # "init" THEN {0, -1}
  ELSE CASE code = "pass" -> {0}
         [] code = EmptyCode -> {0}
         [] code = "raise" -> {-1}
         [] OTHER -> {0, -1}

\* Outcome of a native call that succeeds exactly when `expected`; on an
\* interpreter that is not initialized the outcome is not defined.
Outcomes(expected) == IF interp = "init" THEN {expected} ELSE BOOLEAN

\* PyImport_Import succeeds for __main__, PyObject_GetAttr for a defined
\* function, goToPython for supported argument types.
ImportOK(a) == a # "nomod"
AttrOK(a) == a # "nofn"

\* The variadic args CallFunction receives for the target: CallPyFunction
\* passes its request alone (nil for the function without parameters); a
\* direct caller passes what the function takes; the unsupported argument
\* is a channel, which a direct caller passes after a string.
Args(o, a) ==
  CASE a = "badarg" /\ o = "CallPyFunction" -> <<GoChan>>
    [] a = "badarg" -> <<GoString(<<97>>), GoChan>>
    [] a = NoParams /\ o = "CallPyFunction" -> <<GoNil>>
    [] a = NoParams -> <<>>
    [] OTHER -> <<GoNumber("int", 1)>>

\* The deferred releases of callFunctionUnsafe that have nothing to do.
Deferred_None(owned) == <<>>

\* The references callFunctionUnsafe obtains, latest first; the deferred
\* safeDecRef calls release the ones it owns in this order when it returns.
ReleaseOrder ==
  <<"result", "argTuple", "function", "functionName", "module", "moduleName">>
Deferred(owned) == SelectSeq(ReleaseOrder, LAMBDA x : x \in owned)

\* callFunctionUnsafe returns owning `owned`: the deferred calls run.
Exit(t, owned) ==
  local' = [local EXCEPT ![t].held = {},
                         ![t].dropped = @ \o Deferred(owned)]

\* The number of parameters of the target function.
Arity(a) == IF a = NoParams THEN 0 ELSE 1

\* The number of variadic args CallFunction receives: CallPyFunction always
\* passes its request; a direct caller passes what the function takes.
Positional(o, a) == Len(Args(o, a))

\* What PyObject_CallObject can produce for the target when it is given n
\* positional arguments: a count the function does not accept raises TypeError.
CallResults(a, n) ==
  IF n # Arity(a) THEN {"raise"}
  ELSE IF a = "bump" THEN {"None"}
  ELSE IF a = ReturnsInstance THEN {"instance"} ELSE FResults

\* The object a Python function returns, by what the function does.
ReturnedObject(r) ==
  CASE r = "None" -> PyNone
    [] r = "int" -> PyObj("int", 1, <<>>, <<>>, {})
    [] r = "instance" -> PyInstance
    [] OTHER -> PyTuple

\* pythonToGo of the call result: the Go value's type, or a marshaling error.
pythonToGo(r) ==
  LET c == pythonToGo_object(ReturnedObject(r))
  IN IF c.err # "nil" THEN "ErrMarshal" ELSE c.val.k

\* getPythonError: the generic error when nothing is pending, else the fetched
\* exception; the indicator is clear afterwards on every path.
getPythonError == IF excPending THEN "ErrPython" ELSE "ErrUnknown"

Errors == {"ErrNotInitialized", "ErrVenvConfig", "ErrSiteDirs", "ErrFinalize",
           "ErrPython", "ErrUnknown", "ErrNoFile", "ErrRead", "ErrImport",
           "ErrAttr", "ErrArgs", "ErrCall", "ErrMarshal", "ErrMismatch"}

\* The parameters an error's message is formatted with.
Names(e) ==
  CASE e = "ErrImport" -> {"module"}
    [] e = "ErrAttr" -> {"function", "module"}
    [] e = "ErrNoFile" -> {"filename"}
    [] e = "ErrRead" -> {"filename"}
    [] e = "ErrMismatch" -> {"expected", "actual"}
    [] OTHER -> {}

\* The method whose body a goroutine executes inside a wrapper operation.
Routine(o) ==
  CASE o = "RunFile" -> "RunString"
    [] o = "CallPyFunction" -> "CallFunction"
    [] o = "FinalizeThreadSafe" -> "Finalize"
    [] o = "IsInitializedThreadSafe" -> "IsInitialized"
    [] OTHER -> o

----------------------------------------------------------------------------
(* A goroutine calls a public operation *)

Begin(t, o, a) ==
  /\ pc[t] = "idle"
  /\ op' = [op EXCEPT ![t] = o]
  /\ arg' = [arg EXCEPT ![t] = a]
  /\ ret' = [ret EXCEPT ![t] = "none"]
  /\ natives' = [natives EXCEPT ![t] = <<>>]
  /\ Goto(t, Entry(o))
  /\ local' = [local EXCEPT ![t].seen = IF o = "Finalize" THEN mu ELSE Free]
  /\ UNCHANGED <<global, tmp, want, pure>>

\* The arguments are the caller's; the model draws each one at the step of
\* the operation that first reads it ("-" until then).
Invoke(t) ==
  /\ \E o \in CoreOps : Begin(t, o, "-")
  /\ UNCHANGED issued

\* Arguments a sequential caller also passes explicitly: the empty text (or a
\* file holding it), and the function without parameters.  CallFunction is
\* then called with no argument, CallPyFunction with the request nil.
Given(o) ==
  CASE o \in {"RunString", "RunFile"} -> {"-", EmptyCode}
    [] o \in {"CallFunction", "CallPyFunction"} ->
         {"-", NoParams, ReturnsInstance}
    [] o = "InitializeWithVenv" -> {"-"} \cup VenvLayouts
    [] OTHER -> {"-"}

InvokeAny(t) ==
  /\ \E o \in PublicOps : \E a \in Given(o) : Begin(t, o, a)
  /\ UNCHANGED issued

\* The argument the operation was called with, drawn from `inputs` on its
\* first read.
Read(t, inputs) == IF arg[t] = "-" THEN inputs ELSE {arg[t]}

\* The caller takes the result; the goroutine is ready for its next call.
Complete(t) ==
  /\ pc[t] = "done"
  /\ Goto(t, "idle")
  /\ op' = [op EXCEPT ![t] = "none"]
  /\ arg' = [arg EXCEPT ![t] = "-"]
  /\ ret' = [ret EXCEPT ![t] = "none"]
  /\ natives' = [natives EXCEPT ![t] = <<>>]
  /\ tmp' = [tmp EXCEPT ![t] = 0]
  /\ want' = [want EXCEPT ![t] = "-"]
  /\ local' = [local EXCEPT ![t] = NoLocal]
  /\ UNCHANGED <<global, issued, pure>>

----------------------------------------------------------------------------
(* withGIL / withGILReturn *)

AfterLock(o) ==
  CASE Routine(o) = "RunString" -> "rs_in_run"
    [] Routine(o) = "CallFunction" -> "cf_import"
    [] Routine(o) = "Finalize" -> "fin_in_run"
    [] OTHER -> "venv_in_run"

\* withGIL that runs fn() without taking the mutex.
withGIL_lock_Unguarded(t) ==
  /\ pc[t] = "lock"
  /\ Goto(t, AfterLock(op[t]))
  /\ UNCHANGED <<global, op, arg, ret, natives, tmp, issued, want, local, pure>>

\* py.mu.Lock(); then fn() starts.
withGIL_lock(t) ==
  /\ pc[t] = "lock"
  /\ Lock(t)
  /\ Goto(t, AfterLock(op[t]))
  /\ UNCHANGED <<interp, stopped, excPending, counter, op, arg, ret, natives,
                 tmp, issued, want, local, pure>>

\* fn() has returned; the deferred py.mu.Unlock() runs and withGIL returns
\* fn's result.  Finalize ignores it and goes on to the native stop.
withGIL_unlock(t) ==
  /\ pc[t] = "unlock"
  /\ Unlock(t)
  /\ IF Routine(op[t]) = "Finalize"
     THEN Goto(t, "fin_stop") /\ UNCHANGED ret
     ELSE Return(t, ret[t])
  /\ Forget(t)
  /\ UNCHANGED <<interp, stopped, excPending, counter, op, arg, natives,
                 tmp, issued, want, pure>>

----------------------------------------------------------------------------
(* Initialize, InitializeWithVenv *)

\* The nil check of pyInitialize passes on a constructed handle; the native
\* start entry point is entered.
Initialize_start(t) ==
  /\ pc[t] = "init_start"
  /\ Goto(t, "in_start")
  /\ UNCHANGED <<global, op, arg, ret, natives, tmp, issued, want, local, pure>>

\* Py_Initialize returns; Initialize returns nil.
Initialize_return(t) ==
  /\ pc[t] = "in_start"
  /\ op[t] = "Initialize"
  /\ \E started \in BOOLEAN : Py_Initialize(started)
  /\ Native(t, "start", 0)
  /\ ReturnTop(t, "nil")
  /\ UNCHANGED <<stopped, mu, excPending, counter, op, arg, tmp, issued, want, local, pure>>

\* A validation that lets every configuration pass.
configureVirtualEnvironment_Lax(cfg) == TRUE

\* configureVirtualEnvironment: empty path, missing directory, missing lib.
configureVirtualEnvironment(cfg) == cfg \notin {"empty", "missing", "nolib"}

\* The directory loop of addSiteDirectories: the site-packages directory is
\* found, or is not, or entry.Name()[:6] is out of range.
findSitePackages(cfg) ==
  CASE cfg = "nosite" -> "none"
    [] cfg = "short" -> "panic"
    [] OTHER -> "found"

SystemSite(cfg) == cfg = "valid+system"

\* The statements of siteCode that change sys.path (SitePaths is empty).
siteCode(cfg) ==
  IF findSitePackages(cfg) # "found" THEN <<>>
  ELSE IF SystemSite(cfg) THEN <<"replace", "append_system">>
  ELSE <<"replace">>

\* sys.path after Py_Initialize: the standard library and the system
\* site-packages.
DefaultPath == <<"stdlib", "system">>

\* sys.path after the statements ran.
RECURSIVE RunSite(_, _)
RunSite(code, path) ==
  IF code = <<>> THEN path
  ELSE RunSite(Tail(code),
         IF Head(code) = "replace"
         THEN <<"venv">> \o SelectSeq(path, LAMBDA x : x = "stdlib")
         ELSE IF \E i \in 1..Len(path) : path[i] = "system" THEN path
         ELSE Append(path, "system"))

InitializeWithVenv_configure(t) ==
  /\ pc[t] = "venv_cfg"
  /\ \E cfg \in Read(t, VenvConfigs) :
       /\ arg' = [arg EXCEPT ![t] = cfg]
       /\ IF configureVirtualEnvironment(cfg)
          THEN Goto(t, "in_start") /\ UNCHANGED ret
          ELSE ReturnTop(t, "ErrVenvConfig")
  /\ UNCHANGED <<global, op, natives, tmp, issued, want, local, pure>>

\* Py_Initialize returns; addSiteDirectories builds the site script and
\* calls withGIL.
InitializeWithVenv_started(t) ==
  /\ pc[t] = "in_start"
  /\ op[t] = "InitializeWithVenv"
  /\ \E started \in BOOLEAN : Py_Initialize(started)
  /\ Native(t, "start", 0)
  /\ IF findSitePackages(arg[t]) = "panic"
     THEN ReturnTop(t, "panic")
     ELSE Goto(t, "lock") /\ UNCHANGED ret
  /\ local' = [local EXCEPT ![t].was = interp]
  /\ UNCHANGED <<stopped, mu, excPending, counter, op, arg, tmp, issued, want,
                 pure>>

\* addSiteDirectories: PyRun_SimpleString of the site script returns.
addSiteDirectories_run(t) ==
  /\ pc[t] = "venv_in_run"
  /\ \E rc \in RunResults("site") :
       /\ Native(t, "run", rc)
       /\ ret' = [ret EXCEPT ![t] = IF rc # 0 THEN "ErrSiteDirs" ELSE "nil"]
       /\ local' = [local EXCEPT ![t].path =
                      IF rc # 0 THEN DefaultPath
                      ELSE RunSite(siteCode(arg[t]), DefaultPath)]
  /\ Goto(t, "unlock")
  /\ UNCHANGED <<global, op, arg, tmp, issued, want, pure>>

----------------------------------------------------------------------------
(* IsInitialized *)

IsInitialized_query(t) ==
  /\ pc[t] = "query"
  /\ Native(t, "isinit", pyIsInitialized)
  /\ Return(t, IF IsInitialized THEN "true" ELSE "false")
  /\ UNCHANGED <<global, op, arg, tmp, issued, want, local, pure>>

----------------------------------------------------------------------------
(* Finalize *)

\* Finalize without the IsInitialized gate.
Finalize_check_NoGate(t) ==
  /\ pc[t] = "fin_check"
  /\ Native(t, "isinit", pyIsInitialized)
  /\ Goto(t, "lock")
  /\ UNCHANGED <<global, op, arg, ret, tmp, issued, want, local, pure>>

Finalize_check(t) ==
  /\ pc[t] = "fin_check"
  /\ Native(t, "isinit", pyIsInitialized)
  /\ IF IsInitialized
     THEN Goto(t, "lock") /\ UNCHANGED ret
     ELSE Return(t, "ErrNotInitialized")
  /\ UNCHANGED <<global, op, arg, tmp, issued, want, local, pure>>

\* A cleanup pass whose failure ends Finalize before the native stop.
Finalize_cleanup_Blocking(t) ==
  /\ pc[t] = "fin_in_run"
  /\ \E rc \in RunResults("cleanup") :
       /\ Native(t, "run", rc)
       /\ IF rc # 0
          THEN /\ ret' = [ret EXCEPT ![t] = "ErrUnknown"]
               /\ Goto(t, "done")
               /\ mu' = Free
          ELSE /\ Goto(t, "unlock")
               /\ UNCHANGED <<ret, mu>>
  /\ UNCHANGED <<interp, stopped, excPending, counter, op, arg, tmp, issued, want, local, pure>>

\* The cleanup script's PyRun_SimpleString returns; its code is dropped.
Finalize_cleanup(t) ==
  /\ pc[t] = "fin_in_run"
  /\ \E rc \in RunResults("cleanup") : Native(t, "run", rc)
  /\ Goto(t, "unlock")
  /\ UNCHANGED <<global, op, arg, ret, tmp, issued, want, local, pure>>

\* py.pyFinalizeEx() is entered.
Finalize_stop(t) ==
  /\ pc[t] = "fin_stop"
  /\ Goto(t, "in_stop")
  /\ UNCHANGED <<global, op, arg, ret, natives, tmp, issued, want, local, pure>>

\* Py_FinalizeEx returns its status; Finalize returns.
Finalize_return(t) ==
  /\ pc[t] = "in_stop"
  /\ \E status \in StopStatuses :
       /\ Native(t, "stop", status)
       /\ Return(t, IF status < 0 THEN "ErrFinalize" ELSE "nil")
  /\ Py_FinalizeEx
  /\ UNCHANGED <<mu, op, arg, tmp, issued, want, local, pure>>

----------------------------------------------------------------------------
(* RunString, RunFile *)

RunString_check(t) ==
  /\ pc[t] = "rs_check"
  /\ Native(t, "isinit", pyIsInitialized)
  /\ IF IsInitialized
     THEN Goto(t, "lock") /\ UNCHANGED ret
     ELSE Return(t, "ErrNotInitialized")
  /\ UNCHANGED <<global, op, arg, tmp, issued, want, local, pure>>

\* PyRun_SimpleString returns; a non-zero code becomes getPythonError().
RunString_run(t) ==
  /\ pc[t] = "rs_in_run"
  /\ \E code \in Read(t, Codes) : \E rc \in RunResults(code) :
       /\ arg' = [arg EXCEPT ![t] = code]
       /\ Native(t, "run", rc)
       /\ ret' = [ret EXCEPT ![t] = IF rc # 0 THEN getPythonError ELSE "nil"]
       /\ excPending' = IF rc # 0 THEN FALSE ELSE excPending
  /\ Goto(t, "unlock")
  /\ UNCHANGED <<interp, stopped, mu, counter, op, tmp, issued, want, local, pure>>

RunFile_check(t) ==
  /\ pc[t] = "rf_check"
  /\ Native(t, "isinit", pyIsInitialized)
  /\ IF IsInitialized
     THEN Goto(t, "rf_read") /\ UNCHANGED ret
     ELSE ReturnTop(t, "ErrNotInitialized")
  /\ UNCHANGED <<global, op, arg, tmp, issued, want, local, pure>>

\* A RunFile that takes a file it cannot read for one without content.
RunFile_read_NoStat(t) ==
  /\ pc[t] = "rf_read"
  /\ \E file \in Read(t, Files) :
       /\ arg' = [arg EXCEPT ![t] = file]
       /\ Goto(t, "rs_check")
  /\ UNCHANGED <<global, op, ret, natives, tmp, issued, want, local, pure>>

\* os.Stat and os.ReadFile, then RunString(content).
RunFile_read(t) ==
  /\ pc[t] = "rf_read"
  /\ \E file \in Read(t, Files) :
       /\ arg' = [arg EXCEPT ![t] = file]
       /\ IF file = "nofile"
          THEN ReturnTop(t, "ErrNoFile")
          ELSE IF file = "unreadable"
          THEN ReturnTop(t, "ErrRead")
          ELSE Goto(t, "rs_check") /\ UNCHANGED ret
  /\ UNCHANGED <<global, op, natives, tmp, issued, want, local, pure>>

----------------------------------------------------------------------------
(* CallFunction, CallPyFunction *)

\* CallFunction without the IsInitialized gate.
CallFunction_check_NoGate(t) ==
  /\ pc[t] = "cf_check"
  /\ Native(t, "isinit", pyIsInitialized)
  /\ Goto(t, "lock")
  /\ UNCHANGED <<global, op, arg, ret, tmp, issued, want, local, pure>>

CallFunction_check(t) ==
  /\ pc[t] = "cf_check"
  /\ Native(t, "isinit", pyIsInitialized)
  /\ IF IsInitialized
     THEN Goto(t, "lock") /\ UNCHANGED ret
     ELSE Return(t, "ErrNotInitialized")
  /\ UNCHANGED <<global, op, arg, tmp, issued, want, local, pure>>

\* goToPython(module) and PyImport_Import.
callFunctionUnsafe_import(t) ==
  /\ pc[t] = "cf_import"
  /\ \E a \in Read(t, Targets) : \E ok \in Outcomes(ImportOK(a)) :
       /\ arg' = [arg EXCEPT ![t] = a]
       /\ IF ok
          THEN /\ Native(t, "import", 1)
               /\ Goto(t, "cf_getattr")
               /\ local' = [local EXCEPT ![t].held = {"moduleName", "module"}]
               /\ UNCHANGED <<ret, excPending>>
          ELSE /\ Native(t, "import", 0)
               /\ ret' = [ret EXCEPT ![t] = "ErrImport"]
               /\ excPending' = FALSE
               /\ Exit(t, {"moduleName"})
               /\ Goto(t, "unlock")
  /\ UNCHANGED <<interp, stopped, mu, counter, op, tmp, issued, want, pure>>

\* An attribute lookup whose failure is not looked at.
callFunctionUnsafe_getattr_Unchecked(t) ==
  /\ pc[t] = "cf_getattr"
  /\ \E ok \in Outcomes(AttrOK(arg[t])) :
       /\ Native(t, "getattr", IF ok THEN 1 ELSE 0)
       /\ excPending' = (excPending \/ ~ok)
       /\ Goto(t, "cf_args")
  /\ local' = [local EXCEPT ![t].held = @ \cup {"functionName", "function"}]
  /\ UNCHANGED <<interp, stopped, mu, counter, op, arg, ret, tmp, issued,
                 want, pure>>

\* goToPython(function) and PyObject_GetAttr; a failed lookup leaves the
\* AttributeError set.
callFunctionUnsafe_getattr(t) ==
  /\ pc[t] = "cf_getattr"
  /\ \E ok \in Outcomes(AttrOK(arg[t])) :
       IF ok
       THEN /\ Native(t, "getattr", 1)
            /\ Goto(t, "cf_args")
            /\ local' = [local EXCEPT
                           ![t].held = @ \cup {"functionName", "function"}]
            /\ UNCHANGED <<ret, excPending>>
       ELSE /\ Native(t, "getattr", 0)
            /\ ret' = [ret EXCEPT ![t] = "ErrAttr"]
            /\ excPending' = TRUE
            /\ Exit(t, local[t].held \cup {"functionName"})
            /\ Goto(t, "unlock")
  /\ UNCHANGED <<interp, stopped, mu, counter, op, arg, tmp, issued, want, pure>>

\* buildArgumentTuple; then PyObject_CallObject is entered.  The counter
\* function reads the module-level counter into its local variable.
callFunctionUnsafe_args(t) ==
  /\ pc[t] = "cf_args"
  /\ \E r \in buildArgumentTuple(Args(op[t], arg[t])) :
       IF r.err = "nil"
       THEN /\ Native(t, "args", Positional(op[t], arg[t]))
            /\ Goto(t, "in_call")
            /\ tmp' = [tmp EXCEPT ![t] = IF arg[t] = "bump" THEN counter ELSE @]
            /\ local' = [local EXCEPT ![t].held = @ \cup {"argTuple"},
                                      ![t].made = r.made,
                                      ![t].freed = r.freed]
            /\ UNCHANGED ret
       ELSE /\ Native(t, "args", -1)
            /\ ret' = [ret EXCEPT ![t] = "ErrArgs"]
            /\ Goto(t, "unlock")
            /\ local' = [local EXCEPT ![t].held = {},
                                      ![t].dropped = @ \o Deferred(local[t].held),
                                      ![t].made = r.made,
                                      ![t].freed = r.freed]
            /\ UNCHANGED tmp
  /\ UNCHANGED <<global, op, arg, issued, want, pure>>

\* PyObject_CallObject returns: the counter function writes the counter back;
\* a null result becomes getPythonError(), any other is given to pythonToGo.
callFunctionUnsafe_call(t) ==
  /\ pc[t] = "in_call"
  /\ \E r \in CallResults(arg[t], Positional(op[t], arg[t])) :
       IF r = "raise"
       THEN /\ Native(t, "call", 0)
            /\ ret' = [ret EXCEPT ![t] = "ErrCall"]
            /\ excPending' = FALSE
            /\ Exit(t, local[t].held)
       ELSE /\ Native(t, "call", 1)
            /\ ret' = [ret EXCEPT ![t] = pythonToGo(r)]
            /\ local' = [local EXCEPT
                           ![t].held = {},
                           ![t].dropped =
                             @ \o Deferred(local[t].held \cup {"result"}),
                           ![t].result = ReturnedObject(r).t]
            /\ UNCHANGED excPending
  /\ counter' = IF arg[t] = "bump" THEN tmp[t] + Increment ELSE counter
  /\ Goto(t, "unlock")
  /\ UNCHANGED <<interp, stopped, mu, op, arg, tmp, issued, want, pure>>

CallPyFunction_check(t) ==
  /\ pc[t] = "cpf_check"
  /\ Native(t, "isinit", pyIsInitialized)
  /\ IF IsInitialized
     THEN Goto(t, "cf_check") /\ UNCHANGED ret
     ELSE ReturnTop(t, "ErrNotInitialized")
  /\ UNCHANGED <<global, op, arg, tmp, issued, want, local, pure>>

\* A CallPyFunction that hands on whatever CallFunction returned.
CallPyFunction_cast_Unchecked(t) ==
  /\ pc[t] = "cpf_cast"
  /\ \E T \in ResponseTypes :
       /\ want' = [want EXCEPT ![t] = T]
       /\ ReturnTop(t, ret[t])
  /\ UNCHANGED <<global, op, arg, natives, tmp, issued, local, pure>>

\* CallFunction has returned: its error is passed on; otherwise
\* result.(TResponse) succeeds exactly when the result's dynamic type is
\* TResponse (a nil result has none).
CallPyFunction_cast(t) ==
  /\ pc[t] = "cpf_cast"
  /\ \E T \in ResponseTypes :
       /\ want' = [want EXCEPT ![t] = T]
       /\ ReturnTop(t, IF ret[t] \in Errors THEN ret[t]
                       ELSE IF ret[t] = T THEN ret[t] ELSE "ErrMismatch")
  /\ UNCHANGED <<global, op, arg, natives, tmp, issued, local, pure>>

----------------------------------------------------------------------------
(* FinalizeThreadSafe, IsInitializedThreadSafe *)

\* py.mu.Lock() of the wrapper, then the wrapped method.
ThreadSafe_lock(t) ==
  /\ pc[t] = "ts_lock"
  /\ Lock(t)
  /\ Goto(t, IF op[t] = "FinalizeThreadSafe" THEN "fin_check" ELSE "query")
  /\ UNCHANGED <<interp, stopped, excPending, counter, op, arg, ret, natives,
                 tmp, issued, want, local, pure>>

ThreadSafe_unlock(t) ==
  /\ pc[t] = "ts_unlock"
  /\ Unlock(t)
  /\ ReturnTop(t, ret[t])
  /\ Forget(t)
  /\ UNCHANGED <<interp, stopped, excPending, counter, op, arg, natives,
                 tmp, issued, want, pure>>

----------------------------------------------------------------------------
(* Specifications *)

Init ==
  /\ interp = "uninit"
  /\ stopped = FALSE
  /\ mu = Free
  /\ excPending = FALSE
  /\ counter = 0
  /\ pc = [t \in Threads |-> "idle"]
  /\ op = [t \in Threads |-> "none"]
  /\ arg = [t \in Threads |-> "-"]
  /\ ret = [t \in Threads |-> "none"]
  /\ natives = [t \in Threads |-> <<>>]
  /\ tmp = [t \in Threads |-> 0]
  /\ issued = [t \in Threads |-> 0]
  /\ want = [t \in Threads |-> "-"]
  /\ local = [t \in Threads |-> NoLocal]
  /\ value = "-"
  /\ object = "-"
  /\ converted = "-"
  /\ lib = {}
  /\ handle = "-"
  /\ handles = 0
  /\ exc = "-"
  /\ fetched = "-"

Steps(t) ==
  \/ Complete(t)
  \/ withGIL_lock(t)
  \/ withGIL_unlock(t)
  \/ Initialize_start(t)
  \/ Initialize_return(t)
  \/ InitializeWithVenv_configure(t)
  \/ InitializeWithVenv_started(t)
  \/ addSiteDirectories_run(t)
  \/ IsInitialized_query(t)
  \/ Finalize_check(t)
  \/ Finalize_cleanup(t)
  \/ Finalize_stop(t)
  \/ Finalize_return(t)
  \/ RunString_check(t)
  \/ RunString_run(t)
  \/ CallFunction_check(t)
  \/ callFunctionUnsafe_import(t)
  \/ callFunctionUnsafe_getattr(t)
  \/ callFunctionUnsafe_args(t)
  \/ callFunctionUnsafe_call(t)

WrapperSteps(t) ==
  \/ RunFile_check(t)
  \/ RunFile_read(t)
  \/ CallPyFunction_check(t)
  \/ CallPyFunction_cast(t)
  \/ ThreadSafe_lock(t)
  \/ ThreadSafe_unlock(t)

\* Goroutines call the core methods of the handle concurrently.
Next == \E t \in Threads : Invoke(t) \/ Steps(t)

Spec == Init /\ [][Next]_vars

\* The handle is used by one goroutine at a time: a call, to any public
\* method, starts only when no other call is in progress.
SeqInvoke(t) ==
  /\ \A u \in Threads : pc[u] = "idle"
  /\ InvokeAny(t)

SeqNext == \E t \in Threads : SeqInvoke(t) \/ Steps(t) \/ WrapperSteps(t)

SeqSpec == Init /\ [][SeqNext]_vars

\* Sequential use in which every native call returns and a goroutine that
\* can take a step takes one: a call in progress goes on whenever it can.
LiveSpec ==
  /\ Init
  /\ [][SeqNext]_vars
  /\ \A t \in Threads : WF_vars(Steps(t) \/ WrapperSteps(t))

----------------------------------------------------------------------------
(* The counter scenario of examples/concurrent/main.go: on an initialized    *)
(* interpreter every goroutine calls CallFunction on a Python function that *)
(* reads the module-level counter, adds Increment and writes it back.       *)

InvokeBump(t) ==
  /\ issued[t] < MaxCalls
  /\ Begin(t, "CallFunction", "bump")
  /\ issued' = [issued EXCEPT ![t] = @ + 1]

CounterInit ==
  /\ interp = "init"
  /\ stopped = FALSE
  /\ mu = Free
  /\ excPending = FALSE
  /\ counter = 0
  /\ pc = [t \in Threads |-> "idle"]
  /\ op = [t \in Threads |-> "none"]
  /\ arg = [t \in Threads |-> "-"]
  /\ ret = [t \in Threads |-> "none"]
  /\ natives = [t \in Threads |-> <<>>]
  /\ tmp = [t \in Threads |-> 0]
  /\ issued = [t \in Threads |-> 0]
  /\ want = [t \in Threads |-> "-"]
  /\ local = [t \in Threads |-> NoLocal]
  /\ value = "-"
  /\ object = "-"
  /\ converted = "-"
  /\ lib = {}
  /\ handle = "-"
  /\ handles = 0
  /\ exc = "-"
  /\ fetched = "-"

CounterNext ==
  \E t \in Threads :
    \/ InvokeBump(t)
    \/ Complete(t)
    \/ CallFunction_check(t)
    \/ withGIL_lock(t)
    \/ callFunctionUnsafe_import(t)
    \/ callFunctionUnsafe_getattr(t)
    \/ callFunctionUnsafe_args(t)
    \/ callFunctionUnsafe_call(t)
    \/ withGIL_unlock(t)

CounterSpec == CounterInit /\ [][CounterNext]_vars

----------------------------------------------------------------------------
(* NewPureGoPython: binding the native entry points *)

\* The entry points every operation of the handle depends on.
RequiredSymbols ==
  {"Py_Initialize", "Py_FinalizeEx", "Py_IsInitialized", "PyRun_SimpleString",
   "PyImport_Import", "PyObject_GetAttr", "PyObject_CallObject",
   "PyErr_Occurred", "PyErr_Fetch"}

\* What purego.RegisterLibFunc does with a symbol the library does not
\* export: it panics, or it leaves the function field nil.
UnresolvedModes == {"panic", "unbound"}

\* The fields validateFunctionRegistration looks at, in its order.
Validated ==
  <<"Py_Initialize", "Py_FinalizeEx", "PyRun_SimpleString", "PyImport_Import",
    "PyObject_CallObject">>

\* validateFunctionRegistration: the error names the first nil field of the
\* five; "handle" when none of them is nil.
validateFunctionRegistration(bound) ==
  IF \E i \in 1..Len(Validated) : Validated[i] \notin bound
  THEN Validated[CHOOSE i \in 1..Len(Validated) :
                   /\ Validated[i] \notin bound
                   /\ \A j \in 1..(i - 1) : Validated[j] \in bound]
  ELSE "handle"

\* registerPythonFunctions over the symbols the library exports.
registerPythonFunctions(exported, mode) ==
  IF mode = "panic" /\ RequiredSymbols \ exported # {} THEN "panic" ELSE "nil"

\* NewPureGoPython on a library that loads: "panic", the symbol an error
\* names, or "handle" when the handle is returned.
NewPureGoPython(exported, mode) ==
  IF registerPythonFunctions(exported, mode) = "panic" THEN "panic"
  ELSE validateFunctionRegistration(exported)

\* A call of the constructor for the library; nothing is looked at but the
\* path and the symbols, whatever handles exist already.
NewPureGoPython_call ==
  /\ handles < MaxHandles
  /\ \E mode \in UnresolvedModes :
       /\ handle' = NewPureGoPython(lib, mode)
       /\ handles' = IF handle' = "handle" THEN handles + 1 ELSE handles
  /\ UNCHANGED <<global, pc, op, arg, ret, natives, tmp, issued, want,
                 local, value, object, converted, lib, exc, fetched>>

\* The constructor is given a library exporting any of the required symbols.
NewInit ==
  /\ interp = "uninit"
  /\ stopped = FALSE
  /\ mu = Free
  /\ excPending = FALSE
  /\ counter = 0
  /\ pc = [t \in Threads |-> "idle"]
  /\ op = [t \in Threads |-> "none"]
  /\ arg = [t \in Threads |-> "-"]
  /\ ret = [t \in Threads |-> "none"]
  /\ natives = [t \in Threads |-> <<>>]
  /\ tmp = [t \in Threads |-> 0]
  /\ issued = [t \in Threads |-> 0]
  /\ want = [t \in Threads |-> "-"]
  /\ local = [t \in Threads |-> NoLocal]
  /\ value = "-"
  /\ object = "-"
  /\ converted = "-"
  /\ lib \in SUBSET RequiredSymbols
  /\ handle = "-"
  /\ handles = 0
  /\ exc = "-"
  /\ fetched = "-"

NewNext == NewPureGoPython_call

NewSpec == NewInit /\ [][NewNext]_vars

----------------------------------------------------------------------------
(* The conversions applied to Go values and to returned objects *)

\* Not yet applied.
NoOutcome == Outcome(NULL, "-", "", 0, 0)
NoConverted == Converted(GoNil, "-", "")

\* goToPython(value) returns.
goToPython_call ==
  /\ object = NoOutcome
  /\ object' \in goToPython(value)
  /\ UNCHANGED <<global, pc, op, arg, ret, natives, tmp, issued, want,
                 local, handles, value, converted, lib, handle, exc, fetched>>

\* A Python function returns an object (PyObject_CallObject).
PyObject_CallObject_returned ==
  /\ object = NoOutcome
  /\ \E o \in Returned :
       object' = [Outcome(o, "nil", "", 0, 0) EXCEPT !.from = "python"]
  /\ UNCHANGED <<global, pc, op, arg, ret, natives, tmp, issued, want,
                 local, handles, value, converted, lib, handle, exc, fetched>>

\* pythonToGo(object) returns.
pythonToGo_call ==
  /\ object.err = "nil"
  /\ converted = NoConverted
  /\ converted' = pythonToGo_object(object.obj)
  /\ UNCHANGED <<global, pc, op, arg, ret, natives, tmp, issued, want,
                 local, handles, value, object, lib, handle, exc, fetched>>

\* The conversions are applied to any of the Go values.
ConvInit ==
  /\ interp = "init"
  /\ stopped = FALSE
  /\ mu = Free
  /\ excPending = FALSE
  /\ counter = 0
  /\ pc = [t \in Threads |-> "idle"]
  /\ op = [t \in Threads |-> "none"]
  /\ arg = [t \in Threads |-> "-"]
  /\ ret = [t \in Threads |-> "none"]
  /\ natives = [t \in Threads |-> <<>>]
  /\ tmp = [t \in Threads |-> 0]
  /\ issued = [t \in Threads |-> 0]
  /\ want = [t \in Threads |-> "-"]
  /\ local = [t \in Threads |-> NoLocal]
  /\ value \in Values
  /\ object = NoOutcome
  /\ converted = NoConverted
  /\ lib = RequiredSymbols
  /\ handle = "handle"
  /\ handles = 1
  /\ exc = "-"
  /\ fetched = "-"

ConvNext ==
  \/ goToPython_call
  \/ PyObject_CallObject_returned
  \/ pythonToGo_call

ConvSpec == ConvInit /\ [][ConvNext]_vars

----------------------------------------------------------------------------
(* getPythonError on the exceptions the interpreter can have pending *)

\* What PyErr_Fetch finds: whether an exception is pending (its type is
\* then not null), whether it has a value and a traceback, and whether
\* PyObject_Str of the value and PyUnicode_AsUTF8 of that str succeed.
Exception(pending, val, tb, str, utf8) ==
  [pending |-> pending, value |-> val, traceback |-> tb, str |-> str,
   utf8 |-> utf8]
NoException == Exception(FALSE, FALSE, FALSE, "ok", "ok")
Exceptions ==
  {Exception(TRUE, FALSE, tb, "ok", "ok") : tb \in BOOLEAN}
  \cup {Exception(TRUE, TRUE, tb, "ok", u) : tb \in BOOLEAN, u \in {"ok", "fail"}}
  \cup {Exception(TRUE, TRUE, tb, "fail", "ok") : tb \in BOOLEAN}

\* The references getPythonError releases.
Released(type, val, tb, message) ==
  [type |-> type, value |-> val, traceback |-> tb, message |-> message]

\* What getPythonError gives for the pending exception e: the error, whether
\* PyErr_Fetch was called, how often each reference was released, and whether
\* an exception is pending when it returns (a failed PyObject_Str or
\* PyUnicode_AsUTF8 sets one).
Fetched(e, err, fetch, released, pending, calls) ==
  [of |-> e, err |-> err, fetch |-> fetch, released |-> released,
   pending |-> pending, calls |-> calls]
NoFetched == Fetched(NoException, "-", FALSE, Released(0, 0, 0, 0), FALSE, 0)

getPythonError_fetch(e, calls) ==
  IF ~e.pending
  THEN Fetched(e, "ErrUnknown", FALSE, Released(0, 0, 0, 0), FALSE, calls)
  ELSE IF ~e.value
  THEN Fetched(e, "ErrNoMessage", TRUE, Released(0, 0, 0, 0), FALSE, calls)
  ELSE IF e.str = "fail"
  THEN Fetched(e, "ErrNoString", TRUE,
               Released(1, 1, IF e.traceback THEN 1 ELSE 0, 0), TRUE, calls)
  ELSE Fetched(e, "ErrPython", TRUE,
               Released(1, 1, IF e.traceback THEN 1 ELSE 0, 1),
               e.utf8 = "fail", calls)

\* A native call fails and leaves an exception pending.
PyErr_SetObject ==
  /\ ~exc.pending
  /\ exc' \in Exceptions
  /\ UNCHANGED <<global, pc, op, arg, ret, natives, tmp, issued, want,
                 local, handles, value, object, converted, lib, handle,
                 fetched>>

\* getPythonError() returns; the exception a failed conversion of the
\* message has set is then the pending one.
getPythonError_call ==
  /\ fetched.calls < MaxCalls
  /\ fetched' = getPythonError_fetch(exc, fetched.calls + 1)
  /\ IF fetched'.pending THEN exc' \in Exceptions ELSE exc' = NoException
  /\ UNCHANGED <<global, pc, op, arg, ret, natives, tmp, issued, want,
                 local, handles, value, object, converted, lib, handle>>

ErrInit ==
  /\ interp = "init"
  /\ stopped = FALSE
  /\ mu = Free
  /\ excPending = FALSE
  /\ counter = 0
  /\ pc = [t \in Threads |-> "idle"]
  /\ op = [t \in Threads |-> "none"]
  /\ arg = [t \in Threads |-> "-"]
  /\ ret = [t \in Threads |-> "none"]
  /\ natives = [t \in Threads |-> <<>>]
  /\ tmp = [t \in Threads |-> 0]
  /\ issued = [t \in Threads |-> 0]
  /\ want = [t \in Threads |-> "-"]
  /\ local = [t \in Threads |-> NoLocal]
  /\ value = "-"
  /\ object = "-"
  /\ converted = "-"
  /\ lib = RequiredSymbols
  /\ handle = "handle"
  /\ handles = 1
  /\ exc = NoException
  /\ fetched = NoFetched

ErrNext ==
  \/ PyErr_SetObject
  \/ getPythonError_call

ErrSpec == ErrInit /\ [][ErrNext]_vars

----------------------------------------------------------------------------
(* Properties *)

RECURSIVE Total(_, _)
Total(f, S) == IF S = {} THEN 0
               ELSE LET x == CHOOSE y \in S : TRUE IN f[x] + Total(f, S \ {x})

GatedOps == {"RunString", "RunFile", "CallFunction", "CallPyFunction"}
EngineCalls == {"run", "import", "getattr", "call"}

\* C1 (SeqSpec): while the interpreter is not initialized, a RunString,
\* RunFile, CallFunction or CallPyFunction call is either at its first step or
\* has returned; it never waits for the mutex, it returns the 'not
\* initialized' error, and it has invoked none of the native run-source,
\* import, attribute-get or call entry points.
C1_StateGating ==
  \A t \in Threads :
    (op[t] \in GatedOps /\ ~IsInitialized) =>
      /\ pc[t] \in {Entry(op[t]), "done"}
      /\ pc[t] = "done" => ret[t] = "ErrNotInitialized"
      /\ \A n \in EngineCalls : ~Invoked(t, n)

\* Each of the four operations has been refused, before Initialize and
\* after a Finalize.
C1_Witness ==
  \E t \in Threads :
    /\ op[t] = "CallPyFunction" /\ pc[t] = "done"
    /\ ret[t] = "ErrNotInitialized"
    /\ stopped /\ interp = "fin"

\* C2 (CounterSpec): whenever no call is in flight the counter equals
\* Increment times the number of calls issued: no update is lost.
Quiet == \A t \in Threads : pc[t] \in {"idle", "done"}

C2_NoLostUpdates ==
  Quiet => /\ counter = Increment * Total(issued, Threads)
           /\ \A t \in Threads : pc[t] = "done" => ret[t] = "nil"

\* Every goroutine has made all its calls and the counter has the full value.
C2_Witness ==
  /\ Quiet
  /\ \A t \in Threads : issued[t] = MaxCalls
  /\ counter = Increment * MaxCalls * NumThreads

\* C3 (Spec): a goroutine inside the native start or stop entry point holds
\* the handle's mutex.
C3_LifecycleUnderGate ==
  \A t \in Threads : pc[t] \in {"in_start", "in_stop"} => mu = t

\* C4 (Spec): at most one goroutine at a time is between the first and the
\* last native interpreter call of a RunString or CallFunction.
InEngine(t) ==
  /\ Routine(op[t]) \in {"RunString", "CallFunction"}
  /\ pc[t] \in {"rs_in_run", "cf_import", "cf_getattr", "cf_args", "in_call",
                "unlock"}

C4_TotalOrder ==
  \A t, u \in Threads : (t # u /\ InEngine(t)) => ~InEngine(u)

\* One goroutine is inside a call while another one waits for the mutex.
C4_Witness ==
  \E t, u \in Threads :
    /\ t # u
    /\ pc[t] = "in_call"
    /\ op[u] \in {"RunString", "CallFunction"} /\ pc[u] = "lock"

\* C5 (SeqSpec): Initialize never enters the native start entry point while
\* the interpreter is initialized.
C5_StartOnlyFromUninitialized ==
  \A t \in Threads :
    ~(op[t] = "Initialize" /\ pc[t] = "in_start" /\ IsInitialized)

\* C6 (SeqSpec): when Initialize has returned nil the interpreter is
\* initialized.
C6_InitializeVerified ==
  \A t \in Threads :
    (op[t] = "Initialize" /\ pc[t] = "done" /\ ret[t] = "nil") => IsInitialized

\* C7 (SeqSpec): once a Finalize has shut the interpreter down it is never
\* initialized again.
C7_FinalizedIsTerminal == stopped => ~IsInitialized

\* C8 (SeqSpec): a Finalize (or FinalizeThreadSafe) that finds the
\* interpreter not initialized returns the state error and has invoked
\* nothing but the initialization query: no cleanup script, no native stop.
FinalizeRefused(t) ==
  /\ Routine(op[t]) = "Finalize"
  /\ Len(natives[t]) >= 1
  /\ natives[t][1] = <<"isinit", 0>>

C8_FinalizeOnlyFromInitialized ==
  \A t \in Threads :
    FinalizeRefused(t) =>
      /\ natives[t] = << <<"isinit", 0>> >>
      /\ ret[t] = "ErrNotInitialized"
      /\ pc[t] \in {"done", "ts_unlock"}

\* The second of two Finalize calls in a row has been refused.
C8_Witness ==
  \E t \in Threads :
    /\ op[t] = "Finalize" /\ pc[t] = "done"
    /\ ret[t] = "ErrNotInitialized"
    /\ stopped /\ interp = "fin"

\* C9 (SeqSpec): a Finalize that found the interpreter initialized has, when
\* it returns, run the cleanup script and then the native stop exactly once,
\* whatever the script's code, and returns an error exactly when the stop
\* status is negative.
C9_CleanupAdvisory ==
  \A t \in Threads :
    (/\ op[t] = "Finalize" /\ pc[t] = "done"
     /\ natives[t][1] = <<"isinit", 1>>) =>
      /\ Len(natives[t]) = 3
      /\ natives[t][2][1] = "run"
      /\ natives[t][3][1] = "stop"
      /\ ret[t] = IF natives[t][3][2] < 0 THEN "ErrFinalize" ELSE "nil"

\* The cleanup script failed, the native stop ran and Finalize returned nil.
C9_Witness ==
  \E t \in Threads :
    /\ op[t] = "Finalize" /\ pc[t] = "done"
    /\ natives[t] = << <<"isinit", 1>>, <<"run", -1>>, <<"stop", 0>> >>
    /\ ret[t] = "nil"

\* C10 (SeqSpec): after a Finalize has shut the interpreter down,
\* IsInitialized returns false and RunString, RunFile and CallFunction
\* return the state error.
C10_FinalizedAfterFinalize ==
  \A t \in Threads :
    (/\ stopped /\ pc[t] = "done"
     /\ op[t] \in {"IsInitialized", "RunString", "RunFile", "CallFunction"}) =>
      ret[t] \in {"false", "ErrNotInitialized"}

\* C11 (SeqSpec): when a RunString, RunFile, CallFunction or CallPyFunction
\* call has returned, the interpreter's pending-exception indicator is clear.
C11_ExceptionCleared ==
  \A t \in Threads :
    (op[t] \in GatedOps /\ pc[t] = "done") => ~excPending

\* C15 (SeqSpec): a returned CallFunction whose import failed has the import
\* error, naming the module; one whose attribute lookup failed has the
\* attribute error, naming function and module; in both cases no argument
\* tuple was built and the callable was not invoked.
C15_StepOrder ==
  \A t \in Threads :
    (op[t] = "CallFunction" /\ pc[t] = "done") =>
      /\ (\E i \in 1..Len(natives[t]) : natives[t][i] = <<"import", 0>>) =>
           /\ ret[t] = "ErrImport"
           /\ "module" \in Names(ret[t])
           /\ \A n \in {"getattr", "args", "call"} : ~Invoked(t, n)
      /\ (\E i \in 1..Len(natives[t]) : natives[t][i] = <<"getattr", 0>>) =>
           /\ ret[t] = "ErrAttr"
           /\ Names(ret[t]) = {"function", "module"}
           /\ \A n \in {"args", "call"} : ~Invoked(t, n)

\* A CallFunction for a missing attribute of an importable module returned.
C15_Witness ==
  \E t \in Threads :
    /\ op[t] = "CallFunction" /\ pc[t] = "done"
    /\ arg[t] = "nofn"
    /\ natives[t] = << <<"isinit", 1>>, <<"import", 1>>, <<"getattr", 0>> >>

\* C17 (SeqSpec): a RunString called with the empty text does not invoke the
\* native run-source entry point and returns an error.
C17_NonEmptyText ==
  \A t \in Threads :
    (op[t] = "RunString" /\ arg[t] = EmptyCode) =>
      /\ ~Invoked(t, "run")
      /\ pc[t] = "done" => ret[t] \in Errors

\* C18 (SeqSpec): a RunFile that found the interpreter initialized returns a
\* resource error without a native run when the file is missing or
\* unreadable; otherwise what it did after its own check, and what it
\* returns, is what RunString does with the file's content.
RunStringReturned(code, calls, r) ==
  /\ Len(calls) = 2
  /\ calls[1] = <<"isinit", 1>>
  /\ calls[2][1] = "run"
  /\ calls[2][2] \in RunResults(code)
  /\ r \in (IF calls[2][2] = 0 THEN {"nil"} ELSE {"ErrUnknown", "ErrPython"})

C18_RunFileDelegates ==
  \A t \in Threads :
    /\ (op[t] = "RunFile" /\ pc[t] = "done" /\ natives[t][1] = <<"isinit", 1>>) =>
         IF arg[t] \in {"nofile", "unreadable"}
         THEN /\ ret[t] = (IF arg[t] = "nofile" THEN "ErrNoFile" ELSE "ErrRead")
              /\ "filename" \in Names(ret[t])
              /\ Len(natives[t]) = 1
         ELSE RunStringReturned(arg[t], Tail(natives[t]), ret[t])
    /\ (op[t] = "RunString" /\ pc[t] = "done" /\ natives[t][1] = <<"isinit", 1>>) =>
         RunStringReturned(arg[t], natives[t], ret[t])

\* A RunFile on a file whose text raises has returned RunString's error.
C18_Witness ==
  \E t \in Threads :
    /\ op[t] = "RunFile" /\ pc[t] = "done" /\ arg[t] = "raise"
    /\ natives[t] = << <<"isinit", 1>>, <<"isinit", 1>>, <<"run", -1>> >>
    /\ ret[t] = "ErrUnknown"

\* C19 (SeqSpec): the step by which CallPyFunction returns after CallFunction
\* did: an error of CallFunction is returned as it is; a result whose type is
\* TResponse is returned; any other result (nil included) gives the mismatch
\* error, which names the expected and the actual type.  CallFunction was
\* given exactly one argument.
C19_Cast(t) ==
  (pc[t] = "cpf_cast" /\ pc'[t] = "done") =>
    /\ ret[t] \in Errors => ret'[t] = ret[t]
    /\ (ret[t] \notin Errors /\ ret[t] = want'[t]) => ret'[t] = ret[t]
    /\ (ret[t] \notin Errors /\ ret[t] # want'[t]) =>
         /\ ret'[t] = "ErrMismatch"
         /\ Names(ret'[t]) = {"expected", "actual"}
    /\ \A i \in 1..Len(natives[t]) :
         natives[t][i][1] = "args" => natives[t][i][2] \in {1, -1}

C20_NilRequestNoArgs ==
  \A t \in Threads :
    (/\ op[t] = "CallPyFunction" /\ arg[t] = NoParams /\ pc[t] = "done"
     /\ natives[t][1] = <<"isinit", 1>>) =>
      /\ \E i \in 1..Len(natives[t]) : natives[t][i] = <<"args", 0>>
      /\ ret[t] # "ErrCall"

\* C16 (NewSpec): when the library lacks one of the nine required entry
\* points, NewPureGoPython returns an error that names a missing one; it
\* neither returns a handle nor panics.
C16_AllOrNothing ==
  (handle # "-" /\ RequiredSymbols \ lib # {}) =>
    handle \in RequiredSymbols \ lib

\* The value deep-equal to v in which every Go int is the int64 of the same
\* number.
RECURSIVE Canon(_)
Canon(v) ==
  CASE v.k = "int" -> GoNumber("int64", v.n)
    [] v.k = "slice" -> GoSlice([i \in 1..Len(v.items) |-> Canon(v.items[i])])
    [] v.k = "map" -> GoMap({[key |-> e.key, val |-> Canon(e.val)] : e \in v.m})
    [] OTHER -> v

\* v holds no value of a type goToPython has no case for.
RECURSIVE Supported(_)
Supported(v) ==
  /\ v.k \in HostKinds
  /\ \A i \in 1..Len(v.items) : Supported(v.items[i])
  /\ \A e \in v.m : Supported(e.val)

\* C12 (ConvSpec): for a Go value of the supported types goToPython
\* succeeds, and pythonToGo of its object succeeds and gives a value
\* deep-equal to the input, a Go int coming back as int64.
C12_RoundTrip ==
  (object.from = "go" /\ Supported(value)) =>
    /\ object.err \in {"-", "nil"}
    /\ converted.err # "-" =>
         /\ converted.err = "nil"
         /\ converted.val = Canon(value)

\* C13 (ConvSpec): pythonToGo of an object whose type is bool gives a Go
\* bool of the same truth value, never an int64; so it does for the bool
\* items of a list.
C13_BoolPrecedence ==
  converted.err # "-" =>
    /\ object.obj.t = "bool" =>
         /\ converted.err = "nil"
         /\ converted.val = GoNumber("bool", object.obj.n)
    /\ object.obj.t = "list" =>
         \A i \in 1..Len(object.obj.items) :
           object.obj.items[i].t = "bool" =>
             /\ converted.err = "nil"
             /\ converted.val.items[i] = GoNumber("bool", object.obj.items[i].n)

\* The interpreter's True, returned by a function, has become the Go true.
C13_Witness ==
  /\ object.from = "python"
  /\ object.obj = PyObj("bool", 1, <<>>, <<>>, {})
  /\ converted = Converted(GoNumber("bool", 1), "nil", "")

\* The dynamic types of v and of the values it holds.
RECURSIVE Kinds(_)
Kinds(v) ==
  {v.k} \cup UNION {Kinds(v.items[i]) : i \in 1..Len(v.items)}
        \cup UNION {Kinds(e.val) : e \in v.m}

\* C14 (ConvSpec): goToPython of a value that holds, at any place, a value
\* of an unsupported type returns the error that names that type and no
\* object, and every reference it created has been released.
C14_UnsupportedHostType ==
  (object.from = "go" /\ object.err # "-" /\ ~Supported(value)) =>
    /\ object.err = "ErrUnsupported"
    /\ object.named \in Kinds(value) \ HostKinds
    /\ object.obj = NULL
    /\ object.made = object.freed

\* C21 (ConvSpec): goToPython of a Go integer of any width, signed or
\* unsigned, succeeds and gives one new int object of the same number.
C21_FixedWidthIntegers ==
  (/\ object.from = "go" /\ object.err # "-"
   /\ value.k \in FixedWidth \cup {"int", "int64"}) =>
    /\ object.err = "nil"
    /\ object.obj = PyObj("int", value.n, <<>>, <<>>, {})
    /\ object.made = 1 /\ object.freed = 0

\* The elements of a Python list or the entries of a Python dict all have
\* their counterpart in the Go value, at every depth.
RECURSIVE Faithful(_, _)
Faithful(o, v) ==
  CASE o.t = "list" ->
         /\ v.k = "slice" /\ Len(v.items) = Len(o.items)
         /\ \A i \in 1..Len(o.items) : Faithful(o.items[i], v.items[i])
    [] o.t = "dict" ->
         /\ v.k = "map" /\ Cardinality(v.m) = Cardinality(o.m)
         /\ \A e \in o.m : e.kt = "str" =>
              \E d \in v.m : d.key = e.key /\ Faithful(e.val, d.val)
    [] OTHER -> TRUE

\* C22 (ConvSpec): a pythonToGo that succeeds gives one Go element per
\* element of a Python list and one Go entry per entry of a Python dict;
\* nothing is dropped without an error.
C22_NothingDropped ==
  (object.from = "python" /\ converted.err = "nil") =>
    Faithful(object.obj, converted.val)

\* The Python types pythonToGo converts, and the types of an object and of
\* the objects it holds.
PythonTypes == {"NoneType", "str", "bool", "int", "float", "list", "dict"}
RECURSIVE Types(_)
Types(o) ==
  {getTypeName(o)} \cup UNION {Types(o.items[i]) : i \in 1..Len(o.items)}
                  \cup UNION {Types(e.val) : e \in o.m}

\* C23 (ConvSpec): pythonToGo of an object that is, or holds in a list or
\* a dict, an object of a type outside NoneType, str, bool, int, float, list
\* and dict returns the error that names that type.
C23_UnsupportedPythonType ==
  (/\ object.from = "python" /\ converted.err # "-"
   /\ Types(object.obj) \ PythonTypes # {}) =>
    /\ converted.err = "ErrUnsupportedPy"
    /\ converted.named \in Types(object.obj) \ PythonTypes

\* C26 (NewSpec): at most one handle has been constructed for the library.
C26_SingleLiveHandle == handles <= 1

\* C24 (SeqSpec): a FinalizeThreadSafe never waits for the mutex it holds
\* itself (from where it cannot go on to the cleanup, the native stop and
\* the unlock).
C24_FinalizeThreadSafeTerminates ==
  \A t \in Threads :
    ~(op[t] = "FinalizeThreadSafe" /\ pc[t] = "lock" /\ mu = t)

\* C25 (SeqSpec): an InitializeWithVenv whose configuration has an empty
\* path, a path that does not exist or no lib directory returns the
\* validation error and has made no native call, so the interpreter is as it
\* was.
C25_VenvValidationGatesStart ==
  \A t \in Threads :
    (/\ op[t] = "InitializeWithVenv"
     /\ arg[t] \in {"empty", "missing", "nolib"}) =>
      /\ natives[t] = <<>>
      /\ pc[t] = "done" /\ ret[t] = "ErrVenvConfig"

\* An InitializeWithVenv without lib directory was refused on a fresh handle.
C25_Witness ==
  \E t \in Threads :
    /\ op[t] = "InitializeWithVenv" /\ arg[t] = "nolib" /\ pc[t] = "done"
    /\ ret[t] = "ErrVenvConfig" /\ interp = "uninit"

\* C27 (SeqSpec): no operation ends in a run-time panic.
C27_NoPanic == \A t \in Threads : ret[t] # "panic"

\* C28 (SeqSpec): when InitializeWithVenv has returned nil, the venv's
\* site-packages is in sys.path, before every system package location.
VenvFirst(path) ==
  \E i \in 1..Len(path) :
    /\ path[i] = "venv"
    /\ \A j \in 1..Len(path) : path[j] = "system" => i < j

C28_VenvPrioritized ==
  \A t \in Threads :
    (op[t] = "InitializeWithVenv" /\ pc[t] = "done" /\ ret[t] = "nil") =>
      VenvFirst(local[t].path)

\* The calls that run callFunctionUnsafe and the places a goroutine is at
\* once callFunctionUnsafe has returned.
RunsCall(t) == Routine(op[t]) = "CallFunction" /\ Invoked(t, "import")
AfterCall(t) == RunsCall(t) /\ pc[t] \in {"unlock", "cpf_cast", "done"}
Range(q) == {q[i] : i \in 1..Len(q)}

\* C29 (SeqSpec): when an argument cannot be converted while the argument tuple is
\* being built, buildArgumentTuple releases everything it created, the tuple
\* included, exactly once: callFunctionUnsafe does not release the tuple
\* again, the function is never called, and the call fails with the argument
\* error.
C29_PartialTupleReleased ==
  \A t \in Threads :
    (RunsCall(t) /\ <<"args", -1>> \in Range(natives[t])) =>
      /\ local[t].made >= 1
      /\ local[t].freed = local[t].made
      /\ "argTuple" \notin Range(local[t].dropped)
      /\ ~Invoked(t, "call")
      /\ ret[t] = "ErrArgs"
C29_Witness ==
  \E t \in Threads :
    /\ op[t] = "CallFunction" /\ arg[t] = "badarg" /\ pc[t] = "done"
    /\ <<"args", -1>> \in Range(natives[t])
    /\ local[t].made = 2 /\ local[t].freed = 2

\* The references callFunctionUnsafe obtained, by the entry points it ran.
Obtained(t) ==
  {"moduleName"}
    \cup (IF <<"import", 1>> \in Range(natives[t])
          THEN {"module", "functionName"} ELSE {})
    \cup (IF <<"getattr", 1>> \in Range(natives[t]) THEN {"function"} ELSE {})
    \cup (IF \E n \in 0..MaxLen : <<"args", n>> \in Range(natives[t])
          THEN {"argTuple"} ELSE {})
    \cup (IF <<"call", 1>> \in Range(natives[t]) THEN {"result"} ELSE {})

\* C30 (SeqSpec): once callFunctionUnsafe has returned, on success and on every error
\* path, each reference it obtained (module name, module, function name,
\* function, argument tuple, result) has been released exactly once and
\* none is still owned.
C30_EveryReferenceReleasedOnce ==
  \A t \in Threads :
    AfterCall(t) =>
      /\ local[t].held = {}
      /\ Range(local[t].dropped) = Obtained(t)
      /\ Len(local[t].dropped) = Cardinality(Obtained(t))
C30_Witness ==
  \E t \in Threads :
    /\ op[t] = "CallFunction" /\ pc[t] = "done" /\ ret[t] = "int64"
    /\ local[t].dropped = ReleaseOrder
C30_WitnessErrorPath ==
  \E t \in Threads :
    /\ op[t] = "CallFunction" /\ pc[t] = "unlock" /\ ret[t] = "ErrAttr"
    /\ local[t].dropped = <<"functionName", "module", "moduleName">>

\* The native call a goroutine completes in a step, if any.
Completes(t, name) ==
  /\ Len(natives'[t]) = Len(natives[t]) + 1
  /\ natives'[t][Len(natives'[t])][1] = name

\* C36 (Spec): a RunString or CallFunction makes its native run-source,
\* import and call only on the initialized interpreter and while no
\* goroutine is inside the native stop; after a stop it returns the state
\* error instead.
C36_NoUseAfterStop ==
  [][\A t \in Threads :
       (/\ op[t] \in {"RunString", "CallFunction"}
        /\ \E n \in {"run", "import", "call"} : Completes(t, n)) =>
         /\ interp = "init"
         /\ \A u \in Threads : pc[u] # "in_stop"]_vars

\* C37 (Spec): every native stop a Finalize makes finds the interpreter
\* initialized, so that an initialization is stopped once; a Finalize that
\* comes second returns the 'not initialized' error without the native
\* stop.
C37_StopOncePerInitialization ==
  [][\A t \in Threads :
       (op[t] = "Finalize" /\ Completes(t, "stop")) =>
         /\ interp = "init"
         /\ \A u \in Threads \ {t} : op[u] = "Finalize" => pc[u] # "in_stop"]_vars

\* C35 (Spec): when a goroutine held the mutex at the moment Finalize was
\* called, the Finalize enters the native stop only after that goroutine's
\* call has released the mutex.
C35_FinalizeWaitsForInFlight ==
  \A t \in Threads :
    (op[t] = "Finalize" /\ (pc[t] = "in_stop" \/ Invoked(t, "stop"))) =>
      local[t].seen = Free

\* A Finalize called while a RunString was inside the interpreter waits for
\* the mutex the RunString holds.
C35_Witness ==
  \E t \in Threads : \E u \in Threads \ {t} :
    /\ op[t] = "Finalize" /\ pc[t] = "lock" /\ local[t].seen = u
    /\ op[u] = "RunString" /\ pc[u] = "rs_in_run" /\ mu = u

\* The Finalize has gone on to the native stop after the call it found in
\* flight has returned.
C35_WitnessStopped ==
  \E t \in Threads : \E u \in Threads \ {t} :
    /\ op[t] = "Finalize" /\ pc[t] = "in_stop" /\ local[t].seen = Free
    /\ op[u] = "RunString" /\ pc[u] = "done" /\ ret[u] = "nil"

\* C38 (SeqSpec): when an InitializeWithVenv whose native start found the
\* interpreter not initialized has returned an error, the interpreter is not
\* initialized.
C38_FailedStartLeavesUninitialized ==
  \A t \in Threads :
    (/\ op[t] = "InitializeWithVenv" /\ pc[t] = "done" /\ ret[t] \in Errors
     /\ local[t].was \in {"uninit", "fin"}) =>
      ~IsInitialized

\* C34 (SeqSpec): when callFunctionUnsafe has returned, a null result of
\* PyObject_CallObject has given an error, and the value nil without an
\* error has been given only for the interpreter's None.
C34_NullResultIsError ==
  \A t \in Threads :
    (RunsCall(t) /\ pc[t] \in {"unlock", "cpf_cast"}) =>
      /\ <<"call", 0>> \in Range(natives[t]) => ret[t] \in Errors
      /\ ret[t] = "nil" => local[t].result = PyNone.t

\* C39 (LiveSpec): every RunString, CallFunction and Finalize that has been
\* called (directly, or by RunFile, CallPyFunction or FinalizeThreadSafe)
\* returns; a goroutine whose operation has returned does not hold the
\* mutex, and the mutex is free when no operation is in progress.
Called(t) ==
  /\ Routine(op[t]) \in {"RunString", "CallFunction", "Finalize"}
  /\ pc[t] = Entry(Routine(op[t]))
Returned_to_caller(t) == pc[t] \in {"done", "ts_unlock", "cpf_cast"}

C39_ProgressAndRelease ==
  /\ [](\A t \in Threads : pc[t] \in {"idle", "done"} => mu # t)
  /\ []((\A t \in Threads : pc[t] \in {"idle", "done"}) => mu = Free)
  /\ \A t \in Threads : Called(t) ~> Returned_to_caller(t)

\* C40 (ConvSpec): pythonToGo of a Python int within the range of int64
\* gives the int64 of the same number, and of a Python int outside the range
\* an error.
C40_IntegerRange ==
  (object.from = "python" /\ converted.err # "-" /\ object.obj.t = "int") =>
    IF object.obj.n \in LongMin..LongMax
    THEN converted = Converted(GoNumber("int64", object.obj.n), "nil", "")
    ELSE converted.err # "nil"

\* C33 (ConvSpec): pythonDictToMap gives the map of exactly the entries of
\* the dict whose keys are strs, under their keys; the entries with other
\* keys are left out without an error.
C33_StringKeyedEntries ==
  (/\ object.from = "python" /\ object.obj.t = "dict"
   /\ converted.err = "nil") =>
    converted.val =
      GoMap({[key |-> e.key, val |-> pythonToGo_object(e.val).val]
             : e \in {d \in object.obj.m : d.kt = "str"}})

C31_WitnessNil ==
  /\ object.from = "go" /\ object.err = "ErrSetItem"
  /\ value = GoMap({[key |-> <<97>>, val |-> GoNil]})
  /\ object.log.value = 0 /\ object.log.container = 1

\* C32 (ErrSpec): getPythonError returns the generic error without
\* fetching when no exception is pending; when one is pending it fetches it
\* and, whatever the path it returns by, has released the type, the value
\* and the traceback that are not null and the message string exactly once,
\* and leaves no exception pending.
C32_ErrorTranslation ==
  fetched.err # "-" =>
    LET e == fetched.of
    IN /\ ~e.pending => fetched.err = "ErrUnknown" /\ ~fetched.fetch
       /\ e.pending =>
            /\ fetched.fetch
            /\ fetched.released =
                 Released(1, IF e.value THEN 1 ELSE 0,
                          IF e.traceback THEN 1 ELSE 0,
                          IF e.value /\ e.str = "ok" THEN 1 ELSE 0)
            /\ ~fetched.pending

====
